---- MODULE Spec2Model ----
(***************************************************************************)
(* Remote desktop server: the capture thread and its frame queue           *)
(* (src/capture.py), the broadcast loop and the per-session WebSocket      *)
(* handlers (src/remote_desktop_app/server.py), the session registry       *)
(* (EventBroadcaster in src/capture.py) and the input controller          *)
(* (src/controller.py; src/mouse5s.py holds the single-file variant).      *)
(*                                                                         *)
(* Two execution domains.  The capture thread runs on its own OS thread.   *)
(* Everything else runs on one asyncio event loop: a step of an I/O-domain *)
(* task is the code between two suspension points, and no I/O-domain task  *)
(* takes a step while another one is inside a blocking call.               *)
(***************************************************************************)
EXTENDS Integers, Sequences, FiniteSets, TLC

\* ------------------------------------------------------------------ bounds
MaxSessions    == 2   \* sessions that may connect
MaxLoops       == 2   \* auto-click tasks that may be created
MaxCap         == 2   \* largest frame_queue_size explored
MaxTime        == 40  \* milliseconds the clock may advance
\* frames the capture source yields before it only fails, and inbound
\* messages handled (all sessions together), per specification
MaxFrames      == 3   \* SpecBuffer
FanoutFrames   == 2   \* SpecFanout, SpecPing
DispatchFrames == 2   \* Spec, SpecFair
MaxMsgs        == 3   \* SpecInput, SpecMove
DispatchMsgs   == 2   \* Spec, SpecFair, SpecPing

\* ------------------------------------------------------- program constants
ThrottleMs    == 16   \* PerformanceConfig.mouse_throttle_ms
DoubleClickMs == 100  \* time.sleep(0.1) between the clicks of a double click

\* defaults of ServerConfig and PerformanceConfig
DefaultHttpPort    == 3000
DefaultWsPort      == 8765
DefaultMetricsPort == 9090
DefaultMaxFps      == 30
DefaultJpegQuality == 75
DefaultCompression == 6
DefaultDownscale == 1920

\* the resolution the handshake reports when it knows none (1920x1080);
\* resolutions of monitors are numbered from 1
FallbackRes == 0

\* the first port of each fallback range
HttpFallbackStart == 3001
WsFallbackStart == 8766
MetricsFallbackStart == 9091

\* time.time() at start-up: far more than the throttle after last_move_time = 0
Epoch == 10 * ThrottleMs

Sessions == 1..MaxSessions
Loops    == 1..MaxLoops
Frames   == 1..(MaxFrames + FanoutFrames + DispatchFrames)

VARIABLES
  \* configuration (fixed at construction)
  frame_queue_size,   \* PerformanceConfig.frame_queue_size (0: unbounded queue)
  block_end_key,      \* SecurityConfig.block_end_key
  monolith,           \* TRUE: the single-file variant src/mouse5s.py
  frameLimit,         \* frames the capture source yields before it only fails
  msgLimit,           \* inbound messages the sessions send
  enable_file_transfer, \* FeatureConfig.enable_file_transfer
  cipher,             \* SecurityManager.cipher is set (encryption_key given)
  compression_level,  \* PerformanceConfig.compression_level
  monitors,           \* ScreenCaptureEngine.monitors: the resolution of each
  actuatorFaults,     \* whether the mouse/keyboard controllers may raise
  config,             \* server, security and logging settings as loaded
  portEnv,            \* what the port probes find, per listener
  downscale_threshold, \* PerformanceConfig.downscale_threshold
  \* capture domain
  phase,              \* "new" | "failed" | "constructed" | "aborted" |
                      \* "killed" | "serving" | "cleanup" | "stopped"
  running,            \* ScreenCaptureEngine.running
  capPc,              \* position of the capture thread
  capFrame,           \* frame_data held by the capture thread
  nextFrame,          \* number of the next frame the source yields
  frame_queue,        \* ScreenCaptureEngine.frame_queue, head first
  \* I/O domain: broadcast loop
  bcPc,               \* "none" | "idle" | "blocked" | "sending"
  bcFrame,            \* frame_data held by frame_broadcast_loop
  pending,            \* _send_to_client coroutines of the gather not yet run
  \* I/O domain: sessions
  clients,            \* EventBroadcaster.clients
  conn,               \* transport of each session: "none" | "open" | "closed"
  hPc,                \* handle_websocket of each session: "none" | "recv" | "done"
  out,                \* messages written to each session's transport, in order
  nmsgs,              \* inbound messages handled so far
  \* I/O domain: input controller
  now,                \* time.time(), in milliseconds
  last_move_time,     \* InputController.last_move_time, in milliseconds
  auto_click_active,  \* InputController.auto_click_active
  acPc,               \* _auto_click_loop tasks: "none" | "ready" | "sleep" | "done"
  last,               \* the latest dispatch: who, which message, actuator calls
  lastErr,            \* the exception the latest inbound message or
                      \* auto-click iteration raised, if any
  \* settings and resources that change while the server runs
  listeners,          \* network listeners bound: "metrics", "http", "ws"
  current_monitor,    \* ScreenCaptureEngine.current_monitor (index from 0)
  max_fps,            \* PerformanceConfig.max_fps
  jpeg_quality,       \* PerformanceConfig.jpeg_quality
  \* history
  moveGap,            \* gap between the two latest applied moves (0: fewer than two)
  acTick,             \* flips at every click of an auto-click loop
  stopped,            \* a stop_auto_click was handled, and no start since
  pings,              \* pings handled per session while its transport was open
  removeRaised,       \* some remove_client call raised
  removeCalls,        \* remove_client calls per session
  bcSnap,             \* sessions the current broadcast cycle iterates over
  bcFailed,           \* sessions whose send failed in the current cycle
  endedAtSnap,        \* sessions whose handler had ended when bcSnap was taken
  taken,              \* frames taken by the broadcast loop, in order
  sinceTake,          \* frames whose insert started and ended since the last take
  baseQ,              \* frame_queue right after the last take
  straddle,           \* a take happened inside the insert in progress
  evicted,            \* frames the capture thread removed from the queue
  capMonitor,         \* the capture thread's local `monitor` (index from 0)
  monAtIter,          \* current_monitor when the current iteration started
  putsAfterStop,      \* frames inserted since stop_capture cleared the flag
  capShape,           \* width and height of the image the thread last encoded
  cap2Pc              \* position of a second capture thread, if one was started

cfgVars  == <<frame_queue_size, block_end_key, monolith, frameLimit, msgLimit,
             enable_file_transfer, cipher, compression_level, monitors,
             actuatorFaults, config, portEnv, downscale_threshold>>
sysVars  == <<listeners, current_monitor, max_fps, jpeg_quality, lastErr>>
capVars  == <<running, capPc, capFrame, nextFrame>>
bcVars   == <<bcPc, bcFrame, pending, bcSnap, bcFailed, endedAtSnap>>
sessVars == <<conn, hPc, nmsgs, pings>>
regVars  == <<clients, removeRaised, removeCalls>>
inVars   == <<last_move_time, auto_click_active, acPc, last, moveGap, acTick,
             stopped>>
bufHist  == <<taken, sinceTake, baseQ, straddle, evicted>>
monVars  == <<capMonitor, monAtIter, putsAfterStop, capShape, cap2Pc>>
vars == <<cfgVars, sysVars, phase, capVars, frame_queue, bcVars, sessVars,
          regVars, out, now, inVars, bufHist, monVars>>

\* ------------------------------------------------------- queue.Queue
\* Queue.full(): 0 < maxsize <= qsize
QFull(q, maxsize) == 0 < maxsize /\ maxsize <= Len(q)

QGetNowaitNone(q) == q

QGetNowaitNewest(q) == IF q = <<>> THEN q ELSE SubSeq(q, 1, Len(q) - 1)

\* Queue.get_nowait(): the head is removed; on an empty queue queue.Empty is
\* raised, which the capture loop swallows
QGetNowait(q) == IF q = <<>> THEN q ELSE Tail(q)

QGetLifo(q) == [item |-> q[Len(q)], rest |-> SubSeq(q, 1, Len(q) - 1)]

\* Queue.get() on a queue that is not empty: the head is returned and removed
QGet(q) == [item |-> Head(q), rest |-> Tail(q)]

\* Queue.put(item) returns only once there is room
QCanPut(q, maxsize) == ~(maxsize > 0 /\ Len(q) >= maxsize)

LastN(s, n) == IF Len(s) <= n THEN s ELSE SubSeq(s, Len(s) - n + 1, Len(s))

\* ------------------------------------------------------- configuration
\* SystemConfig(): the settings the server runs with when no file is given
DefaultConfig ==
  [file |-> "absent", http_port |-> DefaultHttpPort, ws_port |-> DefaultWsPort,
   metrics_port |-> DefaultMetricsPort, ssl |-> "off", log_level |-> "INFO"]

\* ConfigManager._load_config: the file's settings when the file exists and
\* loads; the defaults when it is absent, or when loading it raises
LoadConfig(c) == IF c.file = "ok" THEN c ELSE DefaultConfig
LoadPerf(c, v, d) == IF c.file = "ok" THEN v ELSE d

ValidateConfigNoFps(c, fps, q, lvl) ==
  /\ 1 <= c.http_port /\ c.http_port <= 65535
  /\ 1 <= c.ws_port /\ c.ws_port <= 65535
  /\ 10 <= q /\ q <= 100
  /\ 0 <= lvl /\ lvl <= 9
  /\ c.ssl \in {"off", "ok"}
  /\ c.log_level \in {"DEBUG", "INFO", "WARNING", "ERROR", "CRITICAL"}

\* ConfigManager.validate_config; ssl: "off", "ok" (certificate and key
\* exist), "nocert", "nokey"
ValidateConfig(c, fps, q, lvl) ==
  /\ 1 <= c.http_port /\ c.http_port <= 65535
  /\ 1 <= c.ws_port /\ c.ws_port <= 65535
  /\ 1 <= fps /\ fps <= 120
  /\ 10 <= q /\ q <= 100
  /\ 0 <= lvl /\ lvl <= 9
  /\ c.ssl \in {"off", "ok"}
  /\ c.log_level \in {"DEBUG", "INFO", "WARNING", "ERROR", "CRITICAL"}

\* find_available_port found no port: None
NoPort == -1

\* What a probe finds for a listener. "free": the preferred port can be
\* bound (at once, or after kill_process_on_port ended its holder);
\* "fallback": it cannot, a port of the fallback range can; "none": neither.
\* own: what start() finds for the metrics port this process is already
\* listening on since __init__; "kill" when kill_process_on_port finds the
\* holder of that port, which is this process, and kills it.
PortEnvs ==
  [http : {"free", "fallback", "none"}, ws : {"free", "fallback", "none"},
   metrics : {"free", "fallback", "none"},
   own : {"free", "kill", "fallback", "none"}]

\* every port free, on a platform where the probe of a port the process
\* itself listens on succeeds
AllFree == [http |-> "free", ws |-> "free", metrics |-> "free", own |-> "free"]

\* _find_available_port: the preferred port, else the first free port of the
\* fallback range, else None
FindPort(avail, preferred, fallback_start) ==
  CASE avail = "free"     -> preferred
    [] avail = "fallback" -> fallback_start
    [] OTHER              -> NoPort

\* start_http_server(metrics_port) in __init__: binds the port as
\* configured, OSError when it is in use
MetricsBind(avail) == avail = "free"

\* RemoteDesktopServer.__init__: load, validate (ValueError when invalid),
\* build the components, start the metrics listener when metrics_port > 0
Construct ==
  /\ phase = "new"
  /\ LET c   == LoadConfig(config)
         fps == LoadPerf(config, max_fps, DefaultMaxFps)
         q   == LoadPerf(config, jpeg_quality, DefaultJpegQuality)
         lvl == LoadPerf(config, compression_level, DefaultCompression)
     IN /\ config' = c
        /\ max_fps' = fps
        /\ jpeg_quality' = q
        /\ compression_level' = lvl
        /\ IF ~ValidateConfig(c, fps, q, lvl)
             THEN /\ phase' = "failed"
                  /\ UNCHANGED listeners
           ELSE IF c.metrics_port > 0 /\ ~MetricsBind(portEnv.metrics)
             THEN /\ phase' = "failed"
                  /\ UNCHANGED listeners
           ELSE /\ phase' = "constructed"
                /\ listeners' = IF c.metrics_port > 0
                                  THEN listeners \cup {"metrics"}
                                  ELSE listeners
  /\ UNCHANGED <<frame_queue_size, block_end_key, monolith, frameLimit,
                 msgLimit, enable_file_transfer, cipher, monitors,
                 actuatorFaults, portEnv, downscale_threshold,
                 current_monitor, lastErr, capVars,
                 frame_queue, bcVars, sessVars, regVars, out, now, inVars,
                 bufHist,
                 monVars>>

\* ScreenCaptureEngine.switch_monitor(monitor_index)
SwitchMonitor(i) ==
  /\ phase \in {"constructed", "serving"}
  /\ current_monitor' = IF 0 <= i /\ i < Len(monitors) THEN i
                                                       ELSE current_monitor
  /\ UNCHANGED <<cfgVars, listeners, max_fps, jpeg_quality, lastErr, phase,
                 capVars, frame_queue, bcVars, sessVars, regVars, out, now,
                 inVars, bufHist,
                 monVars>>

\* ------------------------------------------------------- capture thread
\* RemoteDesktopServer.start up to the creation of the broadcast task:
\* start_capture sets the flag and starts the thread; the HTTP and the
\* WebSocket port are looked for, and start returns when either is not
\* found; the metrics port is looked for (a port this process listens on
\* already); the ports found are written to the configuration, the
\* listeners are bound, the broadcast task is created.
\* The thread reads self.monitors[self.current_monitor] before its loop and
\* ends with IndexError when there is no such monitor.
Start ==
  /\ phase = "constructed"
  /\ LET http == FindPort(portEnv.http, config.http_port, HttpFallbackStart)
         ws   == FindPort(portEnv.ws, config.ws_port, WsFallbackStart)
         met  == FindPort(portEnv.own, config.metrics_port,
                          MetricsFallbackStart)
         thread == IF current_monitor < Len(monitors) THEN "while" ELSE "exit"
     IN /\ IF http = NoPort \/ ws = NoPort
             THEN /\ phase' = "aborted"
                  /\ running' = TRUE
                  /\ capPc' = thread
                  /\ UNCHANGED <<config, listeners, bcPc>>
           ELSE IF config.metrics_port > 0 /\ portEnv.own = "kill"
             THEN /\ phase' = "killed"
                  /\ running' = FALSE
                  /\ capPc' = "none"
                  /\ listeners' = {}
                  /\ UNCHANGED <<config, bcPc>>
           ELSE /\ phase' = "serving"
                /\ running' = TRUE
                /\ capPc' = thread
                /\ bcPc' = "idle"
                /\ listeners' = listeners \cup {"http", "ws"}
                /\ config' = [config EXCEPT
                                !.http_port = http,
                                !.ws_port = ws,
                                !.metrics_port =
                                  IF @ > 0 /\ met # NoPort THEN met ELSE @]
        /\ capMonitor' = IF phase' # "killed" /\ thread = "while"
                            THEN current_monitor ELSE capMonitor
  /\ UNCHANGED <<frame_queue_size, block_end_key, monolith, frameLimit,
                 msgLimit, enable_file_transfer, cipher, compression_level,
                 monitors, actuatorFaults, portEnv, downscale_threshold,
                 current_monitor, max_fps,
                 jpeg_quality, lastErr, capFrame, nextFrame, frame_queue,
                 bcFrame, pending, bcSnap, bcFailed, endedAtSnap, sessVars,
                 regVars, out, now, inVars, bufHist, monAtIter,
                 putsAfterStop, capShape, cap2Pc>>

LoopTestAlways(flag) == TRUE

\* while self.running:
LoopTest(flag) == flag

CapWhile ==
  /\ capPc = "while"
  /\ capPc' = IF LoopTest(running) THEN "grab" ELSE "exit"
  /\ monAtIter' = current_monitor
  /\ UNCHANGED <<cfgVars, sysVars, phase, running, capFrame, nextFrame,
                 frame_queue, bcVars, sessVars, regVars, out, now, inVars,
                 bufHist, capMonitor, putsAfterStop, capShape, cap2Pc>>

\* the width and height of a monitor, by resolution: full HD, 4K, and a
\* QHD panel turned upright
Dims(res) ==
  CASE res = 1 -> [w |-> 1920, h |-> 1080]
    [] res = 2 -> [w |-> 3840, h |-> 2160]
    [] res = 3 -> [w |-> 1440, h |-> 2560]
    [] OTHER   -> [w |-> 1920, h |-> 1080]

NoShape == [w |-> 0, h |-> 0]

\* cvRound(n / d) for positive n and d
RoundDiv(n, d) == (2 * n + d) \div (2 * d)

\* _optimize_image: when either side is over the threshold, cv2.resize by
\* scale = min(threshold / width, threshold / height) on both axes
OptimizeImage(s, threshold) ==
  IF s.w > threshold \/ s.h > threshold
    THEN IF s.w >= s.h
           THEN [w |-> RoundDiv(s.w * threshold, s.w),
                 h |-> RoundDiv(s.h * threshold, s.w)]
           ELSE [w |-> RoundDiv(s.w * threshold, s.h),
                 h |-> RoundDiv(s.h * threshold, s.h)]
    ELSE s

\* the image handed to cv2.imencode: optimized only if jpeg_quality < 90
EncodedShape(s, quality, threshold) ==
  IF quality < 90 THEN OptimizeImage(s, threshold) ELSE s

\* sct.grab, cvtColor, _optimize_image, imencode, zlib.compress: either a
\* frame, or an exception (logged, sleep 0.1) or result = False (no insert);
\* both failures lead back to the loop test with nothing inserted.
CapGrab ==
  /\ capPc = "grab"
  /\ \/ /\ nextFrame <= frameLimit
        /\ capFrame' = nextFrame
        /\ nextFrame' = nextFrame + 1
        /\ capPc' = "full"
        /\ capShape' = EncodedShape(Dims(monitors[capMonitor + 1]),
                                    jpeg_quality, downscale_threshold)
     \/ /\ capPc' = "while"
        /\ UNCHANGED <<capFrame, nextFrame, capShape>>
  /\ UNCHANGED <<cfgVars, sysVars, phase, running, frame_queue, bcVars,
                 sessVars, regVars, out, now, inVars, bufHist, capMonitor,
                 monAtIter, putsAfterStop, cap2Pc>>

\* if self.frame_queue.full():
CapFull ==
  /\ capPc = "full"
  /\ capPc' = IF QFull(frame_queue, frame_queue_size) THEN "evict" ELSE "put"
  /\ UNCHANGED <<cfgVars, sysVars, phase, running, capFrame, nextFrame, frame_queue,
                 bcVars, sessVars, regVars, out, now, inVars, bufHist,
                 monVars>>

\* try: self.frame_queue.get_nowait() except queue.Empty: pass
CapEvict ==
  /\ capPc = "evict"
  /\ frame_queue' = QGetNowait(frame_queue)
  /\ evicted' = evicted \cup
                  {f \in Frames : \E i \in 1..Len(frame_queue) :
                       frame_queue[i] = f /\
                       \A j \in 1..Len(frame_queue') : frame_queue'[j] # f}
  /\ capPc' = "put"
  /\ UNCHANGED <<cfgVars, sysVars, phase, running, capFrame, nextFrame, bcVars,
                 sessVars, regVars, out, now, inVars, taken, sinceTake, baseQ,
                 straddle,
                 monVars>>

\* self.frame_queue.put(frame_data), then the frame-rate sleep
CapPut ==
  /\ capPc = "put"
  /\ QCanPut(frame_queue, frame_queue_size)
  /\ frame_queue' = Append(frame_queue, capFrame)
  /\ capPc' = "while"
  /\ IF straddle
       THEN /\ baseQ' = frame_queue'
            /\ sinceTake' = <<>>
            /\ straddle' = FALSE
       ELSE /\ sinceTake' = Append(sinceTake, capFrame)
            /\ UNCHANGED <<baseQ, straddle>>
  /\ putsAfterStop' = IF running THEN putsAfterStop ELSE putsAfterStop + 1
  /\ UNCHANGED <<cfgVars, sysVars, phase, running, capFrame, nextFrame, bcVars,
                 sessVars, regVars, out, now, inVars, taken, evicted,
                 capMonitor, monAtIter, capShape, cap2Pc>>

\* a capture thread at this position has not ended
Alive(pc) == pc \notin {"none", "exit"}

\* ScreenCaptureEngine.start_capture, called on the engine at any time: the
\* flag is set and a new thread is started, whatever the flag was and
\* whether or not an earlier thread is still alive
StartCapture ==
  /\ ~Alive(capPc) \/ ~Alive(cap2Pc)
  /\ running' = TRUE
  /\ IF ~Alive(capPc)
       THEN /\ capPc' = IF current_monitor < Len(monitors) THEN "while"
                                                            ELSE "exit"
            /\ capMonitor' = IF current_monitor < Len(monitors)
                               THEN current_monitor ELSE capMonitor
            /\ UNCHANGED cap2Pc
     ELSE /\ cap2Pc' = IF current_monitor < Len(monitors) THEN "while"
                                                           ELSE "exit"
          /\ UNCHANGED <<capPc, capMonitor>>
  /\ UNCHANGED <<cfgVars, sysVars, phase, capFrame, nextFrame, frame_queue,
                 bcVars, sessVars, regVars, out, now, inVars, bufHist,
                 monAtIter, putsAfterStop, capShape>>

\* ScreenCaptureEngine.stop_capture, called on the engine at any time
StopCapture ==
  /\ running' = FALSE
  /\ putsAfterStop' = 0
  /\ UNCHANGED <<cfgVars, sysVars, phase, capPc, capFrame, nextFrame,
                 frame_queue, bcVars, sessVars, regVars, out, now, inVars,
                 bufHist, capMonitor, monAtIter, capShape, cap2Pc>>

\* the second thread's `while self.running:`
Cap2While ==
  /\ cap2Pc = "while"
  /\ cap2Pc' = IF LoopTest(running) THEN "iter" ELSE "exit"
  /\ UNCHANGED <<cfgVars, sysVars, phase, capVars, frame_queue, bcVars,
                 sessVars, regVars, out, now, inVars, bufHist, capMonitor,
                 monAtIter, putsAfterStop, capShape>>

\* one iteration of the second thread, taken as a whole: a frame is grabbed,
\* the head of a full queue is removed and the frame is put, or the grab
\* fails and nothing is inserted
Cap2Iter ==
  /\ cap2Pc = "iter"
  /\ cap2Pc' = "while"
  /\ \/ /\ nextFrame <= frameLimit
        /\ nextFrame' = nextFrame + 1
        /\ frame_queue' =
             Append(IF QFull(frame_queue, frame_queue_size)
                      THEN QGetNowait(frame_queue) ELSE frame_queue,
                    nextFrame)
     \/ UNCHANGED <<nextFrame, frame_queue>>
  /\ UNCHANGED <<cfgVars, sysVars, phase, running, capPc, capFrame, bcVars,
                 sessVars, regVars, out, now, inVars, bufHist, capMonitor,
                 monAtIter, putsAfterStop, capShape>>

\* ------------------------------------------------------- session registry
RemoveResultKeep(C, c) == [set |-> C, raised |-> FALSE]

RemoveResultStrict(C, c) == [set |-> C \ {c}, raised |-> c \notin C]

\* EventBroadcaster.remove_client: self.clients.discard(client); discard
\* raises nothing when the client is absent.
RemoveResult(C, c) == [set |-> C \ {c}, raised |-> FALSE]

\* EventBroadcaster.add_client: self.clients.add(client)
AddResult(C, c) == C \cup {c}

\* the registry after remove_client(c) on registry C, as an action
RemoveClient(C, c) ==
  /\ clients' = RemoveResult(C, c).set
  /\ removeRaised' = (removeRaised \/ RemoveResult(C, c).raised)
  /\ removeCalls' = [removeCalls EXCEPT ![c] = @ + 1]

\* ------------------------------------------------------- broadcast loop
\* Every I/O-domain step needs the event loop's thread: none runs while
\* frame_broadcast_loop sits inside the synchronous frame_queue.get().
IOFree == phase \in {"serving", "cleanup"} /\ bcPc # "blocked"

FrameMsg(f) == [k |-> "frame", f |-> f]
\* the resolution handle_websocket reports: that of self.monitors[0], or
\* 1920x1080 when the engine has no monitor
HandshakeRes == IF monitors # <<>> THEN monitors[1] ELSE FallbackRes
ScreenSize(res) == [k |-> "screen_size", f |-> res]
ScreenSizeMsg == ScreenSize(HandshakeRes)
PongMsg == [k |-> "pong", f |-> 0]

HandshakeOmitted(log) == log

\* await websocket.send(json.dumps({"type": "screen_size", ...})) on a
\* transport that takes it: the message is written to the session
Handshake(log) == Append(log, ScreenSizeMsg)

\* frame_data = self.capture_engine.frame_queue.get() on an empty queue:
\* the call does not return, and it is made on the event loop's thread.
BcBlock ==
  /\ bcPc = "idle"
  /\ frame_queue = <<>>
  /\ bcPc' = "blocked"
  /\ UNCHANGED <<cfgVars, sysVars, phase, capVars, frame_queue, bcFrame, pending, bcSnap,
                 bcFailed, endedAtSnap, sessVars, regVars, out, now, inVars,
                 bufHist,
                 monVars>>

\* frame_queue.get() returns the head; broadcast_frame(frame_data) returns at
\* once when there is no client, else it builds one _send_to_client coroutine
\* per client of self.clients and gathers them.
BcTake ==
  /\ bcPc \in {"idle", "blocked"}
  /\ frame_queue # <<>>
  /\ bcFrame' = QGet(frame_queue).item
  /\ frame_queue' = QGet(frame_queue).rest
  /\ taken' = Append(taken, bcFrame')
  /\ baseQ' = frame_queue'
  /\ sinceTake' = <<>>
  /\ straddle' = (capPc \in {"evict", "put"})
  /\ pending' = clients
  /\ bcSnap' = clients
  /\ bcFailed' = {}
  /\ endedAtSnap' = {s \in Sessions : hPc[s] = "done"}
  /\ bcPc' = IF clients = {} THEN "idle" ELSE "sending"
  /\ UNCHANGED <<cfgVars, sysVars, phase, capVars, sessVars, regVars, out, now, inVars,
                 evicted,
                 monVars>>

PendingAfterAbort(P, s, ok) == IF ok THEN P \ {s} ELSE {}

\* the gather after the send to s: it goes on with the other coroutines
PendingAfter(P, s, ok) == P \ {s}

SendTargetsLive(P, C) == P \cup (C \ bcSnap)

\* the clients the gather still sends to: the coroutines were all built, from
\* self.clients (C), before the first send; later changes of C do not count
SendTargets(P, C) == P

\* _send_to_client(client, frame_data): await client.send(data); an exception
\* is logged and the client removed.  When the last coroutine has finished
\* the loop sleeps 1 ms and calls get() again.
BcSend(s) ==
  /\ bcPc = "sending"
  /\ s \in SendTargets(pending, clients)
  /\ LET ok == conn[s] = "open" IN
       /\ IF ok
            THEN /\ out' = [out EXCEPT ![s] = Append(@, FrameMsg(bcFrame))]
                 /\ UNCHANGED <<regVars, bcFailed>>
            ELSE /\ RemoveClient(clients, s)
                 /\ bcFailed' = bcFailed \cup {s}
                 /\ UNCHANGED out
       /\ pending' = PendingAfter(pending, s, ok)
       /\ bcPc' = IF pending' = {} THEN "idle" ELSE "sending"
  /\ UNCHANGED <<cfgVars, sysVars, phase, capVars, frame_queue, bcFrame, bcSnap,
                 endedAtSnap, sessVars, now, inVars, bufHist,
                 monVars>>

\* ------------------------------------------------------- sessions
\* handle_websocket up to the receive loop: add_client, then the screen_size
\* message.  send() writes before it first suspends, so both happen in one
\* step.  When the peer is already gone the send raises, and the finally
\* clause removes the client again.
Connect(s) ==
  /\ IOFree
  /\ hPc[s] = "none"
  /\ \A r \in Sessions : r < s => hPc[r] # "none"
  /\ \E ok \in BOOLEAN :
       IF ok
         THEN /\ conn' = [conn EXCEPT ![s] = "open"]
              /\ clients' = AddResult(clients, s)
              /\ out' = [out EXCEPT ![s] = Handshake(@)]
              /\ hPc' = [hPc EXCEPT ![s] = "recv"]
              /\ UNCHANGED <<removeRaised, removeCalls>>
         ELSE /\ conn' = [conn EXCEPT ![s] = "closed"]
              /\ RemoveClient(AddResult(clients, s), s)
              /\ hPc' = [hPc EXCEPT ![s] = "done"]
              /\ UNCHANGED out
  /\ UNCHANGED <<cfgVars, sysVars, phase, capVars, frame_queue, bcVars, nmsgs, pings,
                 now, inVars, bufHist,
                 monVars>>

\* the peer closes, or the connection breaks
CloseTransport(s) ==
  /\ conn[s] = "open"
  /\ conn' = [conn EXCEPT ![s] = "closed"]
  /\ UNCHANGED <<cfgVars, sysVars, phase, capVars, frame_queue, bcVars, hPc, nmsgs,
                 pings, regVars, out, now, inVars, bufHist,
                 monVars>>

ExitRegistryKeep(s) == UNCHANGED regVars

\* what the handler's exit does to the registry: finally: remove_client
ExitRegistry(s) == RemoveClient(clients, s)

\* async for message in websocket ends (or raises) once the transport is
\* closed; finally: self.broadcaster.remove_client(websocket)
HandlerExit(s) ==
  /\ IOFree
  /\ hPc[s] = "recv"
  /\ conn[s] = "closed"
  /\ hPc' = [hPc EXCEPT ![s] = "done"]
  /\ ExitRegistry(s)
  /\ UNCHANGED <<cfgVars, sysVars, phase, capVars, frame_queue, bcVars, conn, nmsgs,
                 pings, out, now, inVars, bufHist,
                 monVars>>

\* ------------------------------------------------------- shutdown
\* start(): the wait for the listeners ends (the main task is cancelled, or
\* interrupted), and the finally clause runs _cleanup up to its first
\* suspension: stop_capture(), then await runner.cleanup()
BeginShutdown ==
  /\ IOFree
  /\ phase = "serving"
  /\ phase' = "cleanup"
  /\ running' = FALSE
  /\ UNCHANGED <<cfgVars, sysVars, capPc, capFrame, nextFrame, frame_queue,
                 bcVars, sessVars, regVars, out, now, inVars, bufHist,
                 monVars>>

\* _cleanup after runner.cleanup() returned: ws_server.close(), the log line;
\* start() returns and the event loop cancels the broadcast task where it
\* is suspended
CleanupDone ==
  /\ IOFree
  /\ phase = "cleanup"
  /\ phase' = "stopped"
  /\ listeners' = listeners \ {"http", "ws"}
  /\ bcPc' = "none"
  /\ pending' = {}
  /\ UNCHANGED <<cfgVars, current_monitor, max_fps, jpeg_quality, lastErr,
                 capVars, frame_queue, bcFrame, bcSnap, bcFailed, endedAtSnap,
                 sessVars, regVars, out, now, inVars, bufHist,
                 monVars>>

\* ------------------------------------------------------- inbound messages
Missing == "<missing>"     \* a field the JSON object does not have (None)
NonStr  == "<number>"      \* a JSON value that is no string, and is truthy

\* kind: "text" (a JSON object), "nonobj" (JSON, but no object), "badjson"
Msg(kind, type, action, arg) ==
  [kind |-> kind, type |-> type, action |-> action, arg |-> arg]

NoMsg   == Msg("none", Missing, Missing, Missing)
AutoMsg == Msg("auto", Missing, Missing, Missing)
PingMsg == Msg("text", "ping", Missing, Missing)

KeyVals == {"end", "END", "End", "a", "Enter", "", Missing, NonStr}

\* the messages of the input channel: every action of handle_command
ControlMsgs ==
  {Msg("text", "control", a, Missing) :
     a \in {"move", "click", "double_click", "scroll", "start_auto_click",
            "stop_auto_click"}}
  \cup {Msg("text", "control", "key", k) : k \in KeyVals}
  \cup {Msg("text", "control", "click", "right")}

\* the messages of the dispatcher: every type, with and without a type field
WireMsgs ==
  {PingMsg,
   Msg("text", "command", "start_auto_click", Missing),
   Msg("text", "command", "stop_auto_click", Missing),
   Msg("text", "command", "set_quality", Missing),
   Msg("text", "command", "set_fps", Missing),
   Msg("text", "command", "reboot", Missing),
   Msg("text", "control", "click", Missing),
   Msg("text", Missing, "click", Missing),
   Msg("text", "status", "click", Missing),
   Msg("nonobj", Missing, Missing, Missing),
   Msg("badjson", Missing, Missing, Missing)}

\* binary payloads: raw bytes, a zlib stream of them, a Fernet token of
\* either, and a zlib stream of a token
Payloads == {"raw", "zip(raw)", "enc(raw)", "enc(zip(raw))", "zip(enc(raw))"}
Bad == "<raises>"

FileMsgs == {Msg("binary", Missing, Missing, p) : p \in Payloads}

\* set_quality and set_fps commands that ask for a value other than the
\* one in force (WireMsgs has the ones that carry no value)
SettingMsgs == {Msg("text", "command", a, "low") : a \in {"set_quality", "set_fps"}}

\* len(data)
ByteCount(p) ==
  CASE p = "raw"           -> 3
    [] p = "zip(raw)"      -> 2
    [] p = "enc(raw)"      -> 5
    [] p = "enc(zip(raw))" -> 4
    [] p = "zip(enc(raw))" -> 6
    [] OTHER               -> 0

\* SecurityManager.decrypt_data with a cipher: Fernet.decrypt raises
\* InvalidToken on what is no token
Decrypt(p) ==
  CASE p = "enc(raw)"      -> "raw"
    [] p = "enc(zip(raw))" -> "zip(raw)"
    [] OTHER               -> Bad

\* zlib.decompress raises zlib.error on what is no zlib stream
Inflate(p) ==
  CASE p = "zip(raw)"      -> "raw"
    [] p = "zip(enc(raw))" -> "enc(raw)"
    [] OTHER               -> Bad

FileOk(n) == [k |-> "file_transfer", f |-> n]
FileErr   == [k |-> "file_transfer_error", f |-> 0]

\* _handle_file_transfer up to its reply: decrypt when a cipher is set, then
\* decompress when compression_level > 0
FileDecode(p, hasCipher, lvl) ==
  LET d1 == IF hasCipher THEN Decrypt(p) ELSE p
  IN IF d1 = Bad THEN Bad
     ELSE IF lvl > 0 THEN Inflate(d1) ELSE d1

FileReplyRawSize(p, hasCipher, lvl) == FileOk(ByteCount(p))

\* the reply _handle_file_transfer sends
FileReply(p, hasCipher, lvl) ==
  IF FileDecode(p, hasCipher, lvl) = Bad
    THEN FileErr
    ELSE FileOk(ByteCount(FileDecode(p, hasCipher, lvl)))

\* str.lower() on the key values above
Lower(k) ==
  CASE k = "END"   -> "end"
    [] k = "End"   -> "end"
    [] k = "Enter" -> "enter"
    [] OTHER       -> k

IsStr(k)  == k \notin {Missing, NonStr}
Truthy(k) == k \notin {Missing, ""}

\* ------------------------------------------------------- input controller
Call(op, arg) == [op |-> op, arg |-> arg]

\* the special_keys table of _press_key, on the lower-cased key
SpecialKey(k) ==
  CASE k = "end"   -> "Key.end"
    [] k = "enter" -> "Key.enter"
    [] OTHER       -> Missing

\* _press_key(key): press and release of the mapped Key object, or of the
\* literal text; src/mouse5s.py has no table and presses the text as it is.
PressKey(k, mono) ==
  LET obj == IF ~mono /\ SpecialKey(Lower(k)) # Missing
               THEN SpecialKey(Lower(k)) ELSE k
  IN <<Call("press", obj), Call("release", obj)>>

KeyPassesNoLower(k, block, mono) ==
  IF mono THEN IsStr(k) /\ k # "end"
          ELSE Truthy(k) /\ IsStr(k) /\ (k # "end" \/ ~block)

\* the guard of the "key" branch of handle_command:
\*   controller.py: key and (key.lower() != "end" or not block_end_key)
\*   mouse5s.py:    key.lower() != "end"
\* key.lower() raises on a value that is no string, and handle_command's
\* except clause swallows that: no call is made.
KeyPasses(k, block, mono) ==
  IF mono THEN IsStr(k) /\ Lower(k) # "end"
          ELSE Truthy(k) /\ IsStr(k) /\ (Lower(k) # "end" \/ ~block)

MoveAllowedInclusive(t, lmt) == t - lmt >= ThrottleMs

\* _move_mouse: current_time - self.last_move_time > mouse_throttle_ms / 1000
MoveAllowed(t, lmt) == t - lmt > ThrottleMs

\* _parse_button: button_map.get(button_str.lower(), Button.left)
ParseButton(b) == IF b = "right" THEN "right" ELSE "left"

\* handle_command(command) at time t: the actuator calls it makes, the new
\* last_move_time and auto_click_active, whether it creates an
\* _auto_click_loop task, and the time it spends in time.sleep.
CmdEffect(m, t, lmt, active, block, mono) ==
  LET same == [calls |-> <<>>, lmt |-> lmt, active |-> active,
               spawn |-> FALSE, dt |-> 0]
  IN
  IF m.kind # "text" THEN same        \* command.get raises: caught, logged
  ELSE
  CASE m.action = "move" ->
         IF MoveAllowed(t, lmt)
           THEN [same EXCEPT !.calls = <<Call("position", "xy")>>, !.lmt = t]
           ELSE same
    [] m.action = "click" ->
         [same EXCEPT !.calls = <<Call("click", ParseButton(m.arg))>>]
    [] m.action = "double_click" ->
         [same EXCEPT !.calls = <<Call("click", "left"), Call("click", "left")>>,
                      !.dt = DoubleClickMs]
    [] m.action = "scroll" ->
         [same EXCEPT !.calls = <<Call("scroll", "dy")>>]
    [] m.action = "key" ->
         IF KeyPasses(m.arg, block, mono)
           THEN [same EXCEPT !.calls = PressKey(m.arg, mono)]
           ELSE same
    [] m.action = "start_auto_click" ->
         [same EXCEPT !.active = TRUE, !.spawn = TRUE]
    [] m.action = "stop_auto_click" ->
         [same EXCEPT !.active = FALSE]
    [] OTHER -> same

\* RemoteDesktopServer._handle_system_command(data)
SysEffect(m, t, lmt, active, block, mono) ==
  IF m.action \in {"start_auto_click", "stop_auto_click"}
    THEN CmdEffect(Msg("text", Missing, m.action, Missing), t, lmt, active,
                   block, mono)
    ELSE [calls |-> <<>>, lmt |-> lmt, active |-> active, spawn |-> FALSE,
          dt |-> 0]

\* where handle_websocket sends a decoded message:
\*   server.py:  cmd_type = data.get('type', 'control'), then by cmd_type
\*   mouse5s.py: every decoded message goes to handle_command
RouteLenient(m, mono) ==
  IF m.kind = "binary" THEN "file"
  ELSE IF m.kind \in {"badjson", "nonobj"} /\ ~mono THEN "error"
  ELSE IF m.kind = "badjson" THEN "error"
  ELSE IF mono \/ m.type \notin {"command", "ping"} THEN "control"
  ELSE m.type

Route(m, mono) ==
  IF m.kind = "binary" THEN "file"               \* isinstance(message, bytes)
  ELSE IF m.kind = "badjson" THEN "error"        \* json.loads raises
  ELSE IF mono THEN "control"
  ELSE IF m.kind = "nonobj" THEN "error"         \* data.get raises
  ELSE IF m.type = Missing THEN "control"
  ELSE IF m.type \in {"control", "command", "ping"} THEN m.type
  ELSE "unknown"

\* the clock is not observed beyond Epoch + MaxTime
ClockAfter(t, dt) == IF t + dt <= Epoch + MaxTime THEN t + dt ELSE Epoch + MaxTime

\* m is a start_auto_click/stop_auto_click command as the protocol defines it
IsAutoClickCmd(m, a) ==
  /\ m.kind = "text"
  /\ m.action = a
  /\ (monolith \/ m.type \in {Missing, "control", "command"})

FreeLoops == {i \in Loops : acPc[i] = "none"}
MinOf(S) == CHOOSE x \in S : \A y \in S : x <= y

\* handle_command when the first mouse or keyboard call raises: the except
\* clause logs it, nothing was applied
Faulted(e, lmt) == [e EXCEPT !.calls = <<>>, !.lmt = lmt, !.dt = 0]

\* the value a set_quality / set_fps command carries
Requested(m) == IF m.action = "set_quality" THEN 50 ELSE 15

SettingsAfterApplied(m, r, fps, q) ==
  IF r = "command" /\ m.arg = "low" /\ m.action = "set_quality"
    THEN [fps |-> fps, quality |-> Requested(m)]
  ELSE IF r = "command" /\ m.arg = "low" /\ m.action = "set_fps"
    THEN [fps |-> Requested(m), quality |-> q]
  ELSE [fps |-> fps, quality |-> q]

\* PerformanceConfig after _handle_system_command: set_quality and set_fps
\* are logged, nothing is assigned
SettingsAfter(m, r, fps, q) == [fps |-> fps, quality |-> q]

HandlerAfterEscapes(err) == IF err = "none" THEN "recv" ELSE "done"

\* where the handler is after a message that raised err: the except clause
\* inside the receive loop logs it and the loop takes the next message
HandlerAfter(err) == "recv"

\* the sessions a pong for a ping of session s is written to
PongTargetsAll(s) == clients
PongTargets(s) == {s}

\* one iteration of "async for message in websocket" for message m.  A
\* message that was queued when the transport closed is still delivered.
HandleMessage(s, m) ==
  /\ IOFree
  /\ hPc[s] = "recv"
  /\ nmsgs < msgLimit
  /\ \E fault \in IF actuatorFaults THEN BOOLEAN ELSE {FALSE} :
     LET r    == Route(m, monolith)
         base == CASE r = "control" ->
                        CmdEffect(m, now, last_move_time, auto_click_active,
                                  block_end_key, monolith)
                   [] r = "command" ->
                        SysEffect(m, now, last_move_time, auto_click_active,
                                  block_end_key, monolith)
                   [] OTHER ->
                        [calls |-> <<>>, lmt |-> last_move_time,
                         active |-> auto_click_active, spawn |-> FALSE, dt |-> 0]
         eff  == IF fault THEN Faulted(base, last_move_time) ELSE base
         pong == r = "ping" /\ conn[s] = "open"   \* else send raises: logged
         file == r = "file" /\ enable_file_transfer
         set  == SettingsAfter(m, r, max_fps, jpeg_quality)
         err  == CASE m.kind = "badjson" -> "json"
                   [] m.kind = "nonobj" -> "object"
                   [] fault -> "actuator"
                   [] (r = "ping" \/ file) /\ conn[s] # "open" -> "send"
                   [] file /\ FileDecode(m.arg, cipher, compression_level) = Bad
                        -> "transfer"
                   [] OTHER -> "none"
     IN
       /\ fault => base.calls # <<>>
       /\ eff.spawn => FreeLoops # {}
       /\ now' = ClockAfter(now, eff.dt)
       /\ last_move_time' = eff.lmt
       /\ auto_click_active' = eff.active
       /\ acPc' = IF eff.spawn
                    THEN [acPc EXCEPT ![MinOf(FreeLoops)] = "ready"]
                    ELSE acPc
       /\ moveGap' = IF eff.lmt # last_move_time /\ last_move_time # 0
                       THEN IF eff.lmt - last_move_time > ThrottleMs
                              THEN ThrottleMs + 1
                              ELSE eff.lmt - last_move_time
                       ELSE moveGap
       /\ last' = [who |-> "session", id |-> s, msg |-> m, calls |-> eff.calls]
       /\ out' = IF pong
                   THEN [x \in Sessions |->
                           IF x \in PongTargets(s) THEN Append(out[x], PongMsg)
                                                   ELSE out[x]]
                 ELSE IF file /\ conn[s] = "open"
                   THEN [out EXCEPT ![s] =
                           Append(@, FileReply(m.arg, cipher, compression_level))]
                 ELSE out
       /\ pings' = IF m = PingMsg /\ conn[s] = "open" /\ ~monolith
                     THEN [pings EXCEPT ![s] = @ + 1] ELSE pings
       /\ stopped' = IF IsAutoClickCmd(m, "stop_auto_click") THEN TRUE
                     ELSE IF IsAutoClickCmd(m, "start_auto_click") THEN FALSE
                     ELSE stopped
       /\ max_fps' = set.fps
       /\ jpeg_quality' = set.quality
       /\ lastErr' = err
       /\ hPc' = [hPc EXCEPT ![s] = HandlerAfter(err)]
       /\ UNCHANGED acTick
  /\ nmsgs' = nmsgs + 1
  /\ UNCHANGED <<cfgVars, listeners, current_monitor, phase, capVars,
                 frame_queue, bcVars, conn, regVars, bufHist,
                 monVars>>

\* the dispatcher's traffic
Receive(s) == \E m \in WireMsgs : HandleMessage(s, m)

\* the input channel's traffic
ReceiveControl(s) == \E m \in ControlMsgs : HandleMessage(s, m)

\* whether an iteration of _auto_click_loop clicks
AcClicksAlways(active) == TRUE
AcClicks(active) == active

AcAfterErrorRetry == "sleep"

\* where _auto_click_loop is after its click raised: logged, then break
AcAfterError == "done"

\* _auto_click_loop, from its creation or from the end of its sleep to the
\* next sleep: while self.auto_click_active: click; await asyncio.sleep(delay);
\* an exception from the mouse ends the loop
AcStep(i) ==
  /\ IOFree
  /\ acPc[i] \in {"ready", "sleep"}
  /\ \E fault \in IF actuatorFaults THEN BOOLEAN ELSE {FALSE} :
       IF ~AcClicks(auto_click_active)
         THEN /\ ~fault
              /\ acPc' = [acPc EXCEPT ![i] = "done"]
              /\ UNCHANGED <<last, acTick, lastErr>>
       ELSE IF fault
         THEN /\ acPc' = [acPc EXCEPT ![i] = AcAfterError]
              /\ last' = [who |-> "loop", id |-> i, msg |-> AutoMsg,
                          calls |-> <<>>]
              /\ lastErr' = "autoclick"
              /\ UNCHANGED acTick
       ELSE /\ acPc' = [acPc EXCEPT ![i] = "sleep"]
            /\ last' = [who |-> "loop", id |-> i, msg |-> AutoMsg,
                        calls |-> <<Call("click", "left")>>]
            /\ acTick' = ~acTick
            /\ lastErr' = "none"
  /\ UNCHANGED <<cfgVars, listeners, current_monitor, max_fps, jpeg_quality,
                 phase, capVars, frame_queue, bcVars, sessVars, regVars, out,
                 now, last_move_time, auto_click_active, moveGap, stopped,
                 bufHist, monVars>>

\* the wall clock advances
Tick ==
  /\ now < Epoch + MaxTime
  /\ now' = now + 1
  /\ UNCHANGED <<cfgVars, sysVars, phase, capVars, frame_queue, bcVars, sessVars,
                 regVars, out, inVars, bufHist,
                 monVars>>

\* ------------------------------------------------------- specifications
\* the state after RemoteDesktopServer.__init__, for the configurations given
\* the components as their constructors leave them
InitState(sizes, blocks, variants, frames, msgs) ==
  /\ frame_queue_size \in sizes
  /\ block_end_key \in blocks
  /\ monolith \in variants
  /\ frameLimit = frames
  /\ msgLimit = msgs
  /\ current_monitor = 0
  /\ lastErr = "none"
  /\ running = FALSE
  /\ capPc = "none"
  /\ capFrame = 0
  /\ nextFrame = 1
  /\ frame_queue = <<>>
  /\ bcPc = "none"
  /\ bcFrame = 0
  /\ pending = {}
  /\ clients = {}
  /\ conn = [s \in Sessions |-> "none"]
  /\ hPc = [s \in Sessions |-> "none"]
  /\ out = [s \in Sessions |-> <<>>]
  /\ nmsgs = 0
  /\ now = Epoch
  /\ last_move_time = 0
  /\ auto_click_active = FALSE
  /\ acPc = [i \in Loops |-> "none"]
  /\ last = [who |-> "none", id |-> 0, msg |-> NoMsg, calls |-> <<>>]
  /\ moveGap = 0
  /\ acTick = FALSE
  /\ stopped = FALSE
  /\ pings = [s \in Sessions |-> 0]
  /\ removeRaised = FALSE
  /\ removeCalls = [s \in Sessions |-> 0]
  /\ bcSnap = {}
  /\ bcFailed = {}
  /\ endedAtSnap = {}
  /\ taken = <<>>
  /\ sinceTake = <<>>
  /\ baseQ = <<>>
  /\ straddle = FALSE
  /\ evicted = {}
  /\ capMonitor = 0
  /\ monAtIter = 0
  /\ putsAfterStop = 0
  /\ capShape = NoShape
  /\ cap2Pc = "none"

\* the machine and the feature settings: the monitors found, file transfer,
\* an encryption key, the compression level, an actuator that may raise
Machine(mons, transfers, ciphers, levels, faults) ==
  /\ monitors \in mons
  /\ enable_file_transfer \in transfers
  /\ cipher \in ciphers
  /\ compression_level \in levels
  /\ actuatorFaults \in faults

\* constructed from the default configuration
Constructed ==
  /\ config = DefaultConfig
  /\ max_fps = DefaultMaxFps
  /\ jpeg_quality = DefaultJpegQuality
  /\ phase = "constructed"
  /\ listeners = {"metrics"}
  /\ portEnv = AllFree
  /\ downscale_threshold = DefaultDownscale

\* the default configuration on a machine with one monitor
DefaultSettings ==
  /\ Machine({<<1>>}, {TRUE}, {FALSE}, {DefaultCompression}, {FALSE})
  /\ Constructed

InitWith(sizes, blocks, variants, frames, msgs) ==
  InitState(sizes, blocks, variants, frames, msgs) /\ DefaultSettings

\* the server as shipped (block_end_key = True, the modular variant) with a
\* one-slot frame queue
Init == InitWith({1}, {TRUE}, {FALSE}, DispatchFrames, DispatchMsgs)

CaptureNext == CapWhile \/ CapGrab \/ CapFull \/ CapEvict \/ CapPut

BroadcastNext == BcBlock \/ BcTake \/ \E s \in Sessions : BcSend(s)

Next ==
  \/ Start
  \/ CaptureNext
  \/ BroadcastNext
  \/ \E s \in Sessions : Connect(s)
  \/ \E s \in Sessions : CloseTransport(s)
  \/ \E s \in Sessions : HandlerExit(s)
  \/ \E s \in Sessions : Receive(s)
  \/ \E i \in Loops : AcStep(i)

Spec == Init /\ [][Next]_vars

\* the same program under the scheduling the runtime gives: the capture thread
\* runs whenever it can, and the event loop runs every task that stays ready
SpecFair ==
  /\ Spec
  /\ WF_vars(CaptureNext)
  /\ WF_vars(BroadcastNext)
  /\ \A s \in Sessions : WF_vars(HandlerExit(s))
  /\ \A i \in Loops : WF_vars(AcStep(i))

\* the input channel alone, with the clock stopped, for both settings of
\* block_end_key and both variants of the controller; the capture thread and
\* the broadcast loop take no step
InitInput == InitWith({1}, BOOLEAN, BOOLEAN, 0, MaxMsgs)

NextInput ==
  \/ Start
  \/ \E s \in Sessions : Connect(s)
  \/ \E s \in Sessions : ReceiveControl(s)
  \/ \E i \in Loops : AcStep(i)

SpecInput == InitInput /\ [][NextInput]_vars

\* the input channel under the event loop's scheduling: a task that is ready
\* runs
SpecInputFair == SpecInput /\ \A i \in Loops : WF_vars(AcStep(i))

\* move throttling: moves and double clicks from every session while the
\* clock runs
MoveMsgs == {Msg("text", "control", "move", Missing),
             Msg("text", "control", "double_click", Missing)}

ReceiveMove(s) == \E m \in MoveMsgs : HandleMessage(s, m)

NextMove ==
  \/ Start
  \/ \E s \in Sessions : Connect(s)
  \/ \E s \in Sessions : ReceiveMove(s)
  \/ Tick

SpecMove == InitWith({1}, {TRUE}, BOOLEAN, 0, MaxMsgs) /\ [][NextMove]_vars

\* the frame queue alone: the capture thread fills it, the broadcast loop
\* takes from it, no session is connected
NextBuffer ==
  \/ Start
  \/ CaptureNext
  \/ BcBlock
  \/ BcTake

SpecBuffer ==
  InitWith(0..MaxCap, {TRUE}, {FALSE}, MaxFrames, 0) /\ [][NextBuffer]_vars

\* frame fan-out: sessions connect and break while frames are broadcast; no
\* inbound message is handled
NextFanout ==
  \/ Start
  \/ CaptureNext
  \/ BroadcastNext
  \/ \E s \in Sessions : Connect(s)
  \/ \E s \in Sessions : CloseTransport(s)
  \/ \E s \in Sessions : HandlerExit(s)

SpecFanout ==
  InitWith({1}, {TRUE}, {FALSE}, FanoutFrames, 0) /\ [][NextFanout]_vars

\* pings from every session while frames are broadcast
ReceivePing(s) == HandleMessage(s, PingMsg)

NextPing == NextFanout \/ \E s \in Sessions : ReceivePing(s)

SpecPing ==
  InitWith({1}, {TRUE}, {FALSE}, FanoutFrames, DispatchMsgs)
    /\ [][NextPing]_vars

\* the dispatcher under every kind of message, with an actuator that can
\* raise and transports that close
DispatchMsgSet == WireMsgs \cup SettingMsgs

ReceiveAny(s) == \E m \in DispatchMsgSet : HandleMessage(s, m)

InitDispatch ==
  /\ InitState({1}, {TRUE}, BOOLEAN, 0, MaxMsgs)
  /\ Machine({<<1>>}, {TRUE}, {FALSE}, {DefaultCompression}, {TRUE})
  /\ Constructed

NextDispatch ==
  \/ Start
  \/ \E s \in Sessions : Connect(s)
  \/ \E s \in Sessions : CloseTransport(s)
  \/ \E s \in Sessions : HandlerExit(s)
  \/ \E s \in Sessions : ReceiveAny(s)
  \/ \E i \in Loops : AcStep(i)

SpecDispatch == InitDispatch /\ [][NextDispatch]_vars

\* file transfer: every payload under every setting of the feature flag, the
\* cipher and the compression level
ReceiveFile(s) == \E m \in FileMsgs : HandleMessage(s, m)

InitFile ==
  /\ InitState({1}, {TRUE}, BOOLEAN, 0, MaxMsgs)
  /\ Machine({<<1>>}, BOOLEAN, BOOLEAN, {0, DefaultCompression}, {FALSE})
  /\ Constructed

NextFile ==
  \/ Start
  \/ \E s \in Sessions : Connect(s)
  \/ \E s \in Sessions : CloseTransport(s)
  \/ \E s \in Sessions : HandlerExit(s)
  \/ \E s \in Sessions : ReceiveFile(s)

SpecFile == InitFile /\ [][NextFile]_vars

\* construction: every configuration file, valid or not, absent or broken
HttpPortVals == {0, 1, DefaultHttpPort, 65535, 65536}
WsPortVals   == {0, DefaultWsPort, 65536}
MetricsVals  == {0, DefaultMetricsPort}
FpsVals      == {0, 1, DefaultMaxFps, 120, 121}
QualityVals  == {9, 10, DefaultJpegQuality, 100, 101}
LevelVals    == {-1, 0, DefaultCompression, 9, 10}
SslVals      == {"off", "ok", "nocert", "nokey"}
LogVals      == {"INFO", "TRACE"}

ConfigFiles ==
  [file : {"ok"}, http_port : HttpPortVals, ws_port : WsPortVals,
   metrics_port : MetricsVals, ssl : SslVals, log_level : LogVals]
  \cup {[DefaultConfig EXCEPT !.file = f] : f \in {"absent", "broken"}}

InitConfig ==
  /\ InitState({1}, {TRUE}, {FALSE}, 0, 0)
  /\ phase = "new"
  /\ listeners = {}
  /\ portEnv = AllFree
  /\ downscale_threshold = DefaultDownscale
  /\ config \in ConfigFiles
  /\ max_fps \in IF config.file = "ok" THEN FpsVals ELSE {DefaultMaxFps}
  /\ jpeg_quality \in IF config.file = "ok" THEN QualityVals
                                             ELSE {DefaultJpegQuality}
  /\ compression_level \in IF config.file = "ok" THEN LevelVals
                                                  ELSE {DefaultCompression}
  /\ Machine({<<1>>}, {TRUE}, {FALSE}, {compression_level}, {FALSE})

NextConfig == Construct \/ Start

SpecConfig == InitConfig /\ [][NextConfig]_vars

\* the capture thread's image path on one monitor of each resolution, for
\* qualities on both sides of 90 and thresholds at and below full HD
ScaleQualities == {10, DefaultJpegQuality, 89, 90, 100}
ScaleThresholds == {1280, DefaultDownscale}

InitScale ==
  /\ InitState({1}, {TRUE}, {FALSE}, FanoutFrames, 0)
  /\ Machine({<<1>>, <<2>>, <<3>>}, {TRUE}, {FALSE}, {DefaultCompression},
             {FALSE})
  /\ config = DefaultConfig
  /\ max_fps = DefaultMaxFps
  /\ jpeg_quality \in ScaleQualities
  /\ downscale_threshold \in ScaleThresholds
  /\ phase = "constructed"
  /\ listeners = {"metrics"}
  /\ portEnv = AllFree

NextScale == Start \/ CaptureNext \/ BcBlock \/ BcTake

SpecScale == InitScale /\ [][NextScale]_vars

\* the capture engine alone, with start_capture and stop_capture called in
\* any order at any time
NextEngine ==
  \/ StartCapture
  \/ StopCapture
  \/ CaptureNext
  \/ Cap2While
  \/ Cap2Iter

SpecEngine ==
  InitWith({1}, {TRUE}, {FALSE}, FanoutFrames, 0) /\ [][NextEngine]_vars

\* frame fan-out with a one-slot and a two-slot queue and enough frames for
\* an eviction in either
SpecOrder ==
  InitWith({1, MaxCap}, {TRUE}, {FALSE}, MaxFrames, 0) /\ [][NextFanout]_vars

\* start-up under every outcome of the port probes, with the metrics
\* listener enabled (the default) and disabled
InitPorts ==
  /\ InitState({1}, {TRUE}, {FALSE}, 0, 0)
  /\ Machine({<<1>>}, {TRUE}, {FALSE}, {DefaultCompression}, {FALSE})
  /\ phase = "new"
  /\ listeners = {}
  /\ portEnv \in PortEnvs
  /\ downscale_threshold = DefaultDownscale
  /\ config \in {DefaultConfig,
                 [DefaultConfig EXCEPT !.file = "ok", !.metrics_port = 0]}
  /\ max_fps = DefaultMaxFps
  /\ jpeg_quality = DefaultJpegQuality

NextPorts ==
  \/ Construct
  \/ Start
  \/ \E s \in Sessions : Connect(s)

SpecPorts == InitPorts /\ [][NextPorts]_vars

\* shutdown at any time while frames are captured and broadcast, under the
\* scheduling the runtime gives
NextShutdown == NextFanout \/ BeginShutdown \/ CleanupDone

SpecShutdown ==
  /\ InitWith({1}, {TRUE}, {FALSE}, FanoutFrames, 0)
  /\ [][NextShutdown]_vars
  /\ WF_vars(CaptureNext)
  /\ WF_vars(BroadcastNext)
  /\ WF_vars(CleanupDone)
  /\ \A s \in Sessions : WF_vars(HandlerExit(s))

\* the handshake on machines with no, one and two monitors, with
\* switch_monitor called at any time with any index
MonitorSets == {<<>>, <<1>>, <<1, 2>>}

InitMonitor ==
  /\ InitState({1}, {TRUE}, {FALSE}, FanoutFrames, 0)
  /\ Machine(MonitorSets, {TRUE}, {FALSE}, {DefaultCompression}, {FALSE})
  /\ Constructed

NextMonitor == NextFanout \/ \E i \in -1..2 : SwitchMonitor(i)

SpecMonitor == InitMonitor /\ [][NextMonitor]_vars

\* ------------------------------------------------------- claims
\* C1 (latest-wins): for a queue of capacity N >= 1, whenever the capture
\* thread is not in the middle of an insert, the queue holds exactly the last
\* N frames of what it held after the latest take followed by the frames
\* inserted since, in insertion order (so after k inserts into an empty
\* capacity-N queue with no take, the last min(k, N) frames; for N = 1 the
\* newest frame, which the next take returns); and no frame the capture
\* thread evicted is ever taken by the broadcast loop.
C1_LatestWins ==
  (frame_queue_size >= 1 /\ capPc \notin {"evict", "put"}) =>
     /\ frame_queue = LastN(baseQ \o sinceTake, frame_queue_size)
     /\ \A i \in 1..Len(taken) : taken[i] \notin evicted

C1_Witness ==
  /\ frame_queue_size = 1
  /\ sinceTake = <<1, 2, 3>>
  /\ taken = <<>>
  /\ frame_queue = <<3>>
  /\ evicted = {1, 2}

\* copies of frame f written to a transport
CountFrame(log, f) == Cardinality({i \in 1..Len(log) : log[i] = FrameMsg(f)})

CountPong(log) == Cardinality({i \in 1..Len(log) : log[i] = PongMsg})

\* C2 (fan-out isolation): in a broadcast cycle over the snapshot bcSnap,
\* every session whose send has run either failed (it is then out of the
\* registry and got no copy of the frame) or got exactly one copy and is
\* still registered unless its own handler ended; a session outside the
\* snapshot gets no copy, and nobody ever gets a second copy.  When the cycle
\* is over (pending = {}) this holds of every session of the snapshot.
C2_FanoutIsolation ==
  /\ \A s \in Sessions : \A f \in Frames : CountFrame(out[s], f) <= 1
  /\ bcFailed \subseteq bcSnap
  /\ pending \subseteq bcSnap
  /\ \A s \in Sessions \ bcSnap : bcFrame # 0 => CountFrame(out[s], bcFrame) = 0
  /\ \A s \in pending : CountFrame(out[s], bcFrame) = 0
  /\ \A s \in bcSnap \ pending :
       IF s \in bcFailed
         THEN s \notin clients /\ CountFrame(out[s], bcFrame) = 0
         ELSE /\ CountFrame(out[s], bcFrame) = 1
              /\ (hPc[s] = "recv" => s \in clients)

C2_Witness ==
  /\ bcSnap = {1, 2}
  /\ pending = {}
  /\ bcFailed = {2}
  /\ clients = {1}
  /\ CountFrame(out[1], bcFrame) = 1
  /\ CountFrame(out[2], bcFrame) = 0

C10_RemovedOnClose ==
  /\ \A s \in Sessions : hPc[s] = "done" => s \notin clients
  /\ \A s \in endedAtSnap :
       s \notin bcSnap /\ s \notin pending /\ CountFrame(out[s], bcFrame) = 0

C10_Witness ==
  /\ endedAtSnap = {1}
  /\ removeCalls[1] = 1
  /\ bcSnap = {2}
  /\ CountFrame(out[2], bcFrame) = 1
  /\ Len(out[1]) > 0

\* C6 (ping/pong): the pongs written to a session are exactly as many as the
\* pings handled for that session while its transport was open; the pong is
\* written in the step that handles the ping, so before the session's next
\* message is handled, whatever frames are broadcast around it, and a ping
\* of one session writes nothing to another.
C6_PingPong == \A s \in Sessions : CountPong(out[s]) = pings[s]

C6_Witness ==
  /\ out[1] = <<ScreenSizeMsg, FrameMsg(1), PongMsg, FrameMsg(2)>>
  /\ pings[1] = 1
  /\ hPc[2] = "recv"
  /\ CountFrame(out[2], 1) = 1
  /\ pings[2] = 0

\* a step that handles a move command
MoveStep == nmsgs' = nmsgs + 1 /\ last'.msg.action = "move"

\* C4 (move throttling): a move command, from whichever session, is applied
\* (one position call, last_move_time set to the current time) exactly when
\* more than mouse_throttle_ms have passed since last_move_time; otherwise it
\* makes no call and leaves last_move_time as it was; and two consecutive
\* applied moves are more than mouse_throttle_ms apart.
C4_MoveThrottle ==
  [][ /\ MoveStep =>
           IF now - last_move_time > ThrottleMs
             THEN /\ last'.calls = <<Call("position", "xy")>>
                  /\ last_move_time' = now
             ELSE /\ last'.calls = <<>>
                  /\ last_move_time' = last_move_time
      /\ moveGap' # 0 => moveGap' > ThrottleMs ]_vars

\* two applied moves, then a move 5 ms after the second, dropped
C4_Witness ==
  /\ moveGap > ThrottleMs
  /\ last.msg.action = "move"
  /\ last.calls = <<>>
  /\ now - last_move_time = 5
  /\ nmsgs = 3

\* the latest dispatch is a key command that carries a key
KeyCmd == last.who = "session" /\ last.msg.action = "key" /\ last.msg.arg # Missing

HasPress(calls) == \E i \in 1..Len(calls) : calls[i].op \in {"press", "release"}

\* the END key is blocked: always in src/mouse5s.py, by block_end_key in
\* src/controller.py
Blocking == monolith \/ block_end_key

C7_AutoClickStop ==
  [][ /\ acTick' # acTick => ~stopped
      /\ \A i \in Loops :
           (~auto_click_active /\ acPc[i] \in {"ready", "sleep"}
              /\ acPc'[i] # acPc[i]) =>
             (acPc'[i] = "done" /\ acTick' = acTick /\ last' = last) ]_vars

\* a loop clicked, slept, and ended after the stop
C7_Witness ==
  /\ stopped
  /\ acTick
  /\ acPc[1] = "done"
  /\ last.msg.action = "stop_auto_click"

\* C3 (input channel responsive): while the broadcast loop waits on an empty
\* frame queue, every session whose handler is waiting for a message can
\* still receive and handle one, and every auto-click loop that is due can
\* still run.
C3_InputResponsive ==
  (bcPc = "blocked") =>
     /\ \A s \in Sessions :
          (hPc[s] = "recv" /\ conn[s] = "open" /\ nmsgs < msgLimit) =>
            ENABLED Receive(s)
     /\ \A i \in Loops :
          acPc[i] \in {"ready", "sleep"} => ENABLED AcStep(i)

\* C8 (auto-click start): a loop created by start_auto_click eventually makes
\* its first click and goes to its first sleep, unless the flag is cleared
\* before it first runs.
C8_AutoClickStart ==
  \A i \in Loops :
    (acPc[i] = "ready" /\ auto_click_active)
       ~> (acPc[i] = "sleep" \/ ~auto_click_active)

\* the settings in force break one of the rules the validation states
CfgInvalid ==
  \/ config.http_port \notin 1..65535
  \/ config.ws_port \notin 1..65535
  \/ max_fps \notin 1..120
  \/ jpeg_quality \notin 10..100
  \/ compression_level \notin 0..9
  \/ config.ssl \in {"nocert", "nokey"}
  \/ config.log_level \notin {"DEBUG", "INFO", "WARNING", "ERROR", "CRITICAL"}

\* C20 (configuration errors are fatal at start-up): before construction no
\* listener is bound and the capture thread does not run; when the loaded
\* settings are invalid, construction fails, and no listener (HTTP,
\* WebSocket, metrics) is ever bound and the capture thread never started.
C20_ConfigFatal ==
  /\ phase = "new" => (listeners = {} /\ ~running /\ capPc = "none")
  /\ (phase # "new" /\ CfgInvalid) =>
       (phase = "failed" /\ listeners = {} /\ ~running /\ capPc = "none")

\* a file that is valid but for max_fps = 121, with metrics enabled
C20_Witness ==
  /\ phase = "failed"
  /\ config.file = "ok"
  /\ max_fps = 121
  /\ config.metrics_port > 0
  /\ ValidateConfig(config, 120, jpeg_quality, compression_level)
  /\ listeners = {}

\* the resolution of the monitor switch_monitor selected last (the first one
\* when it never did), or the fallback when there is no such monitor
ActiveRes ==
  IF current_monitor < Len(monitors) THEN monitors[current_monitor + 1]
                                     ELSE FallbackRes

\* C13 (handshake): a session that connects is sent, as its first message,
\* a screen_size message with the resolution of the currently selected
\* monitor, or 1920x1080 when there is none.
C13_Handshake ==
  [][ \A s \in Sessions :
        (hPc[s] = "none" /\ hPc'[s] = "recv") =>
          out'[s] = <<ScreenSize(ActiveRes)>> ]_vars

\* C17 (the producer never blocks): whenever the capture thread reaches its
\* put, the queue has room, so the put returns at once, whether or not the
\* broadcast loop ever takes a frame and for every queue size.
C17_ProducerNeverBlocks == (capPc = "put") => ENABLED CapPut

\* a full two-slot queue, never read, right after the eviction
C17_Witness ==
  /\ capPc = "put"
  /\ frame_queue_size = 2
  /\ frame_queue = <<2>>
  /\ evicted = {1}
  /\ taken = <<>>
  /\ bcPc = "idle"

\* C15 (broadcast-cycle membership): the sessions a cycle sends to are the
\* registry as it is when the frame is taken; the frame is written only to
\* sessions of that snapshot, once each, so not to a session added while the
\* sends are in flight; when the cycle ends every session of the snapshot was
\* sent the frame or failed; and the next cycle's snapshot is again the whole
\* registry, the session added meanwhile included.
C15_CycleMembership ==
  [][ /\ (taken' # taken) => (bcSnap' = clients /\ pending' = clients)
      /\ \A s \in Sessions :
           (out'[s] = Append(out[s], FrameMsg(bcFrame))) =>
             (s \in bcSnap /\ CountFrame(out[s], bcFrame) = 0)
      /\ (bcPc = "sending" /\ bcPc' = "idle") =>
           \A s \in bcSnap :
             s \in bcFailed' \/ CountFrame(out'[s], bcFrame) = 1 ]_vars

\* session 2 was added while the send of frame 1 to session 1 is in flight
C15_Witness ==
  /\ bcPc = "sending"
  /\ bcFrame = 1
  /\ bcSnap = {1}
  /\ pending = {1}
  /\ clients = {1, 2}
  /\ out[2] = <<ScreenSizeMsg>>

\* C16 (shutdown terminates): once _cleanup has begun, it completes.
C16_ShutdownTerminates == (phase = "cleanup") ~> (phase = "stopped")

\* an Event on the wire, as broadcast_event would send it
EventMsg == [k |-> "event", f |-> 0]

CountEvent(log) == Cardinality({i \in 1..Len(log) : log[i] = EventMsg})

\* C18 (events): after a control command was applied to the actuator, every
\* session registered then, as long as it stays open, is eventually sent an
\* Event.
C18_EventBroadcast ==
  \A s \in Sessions :
    (last.who = "session" /\ last.calls # <<>> /\ s \in clients)
       ~> (CountEvent(out[s]) > 0 \/ conn[s] # "open")

\* a step in which the handler of session s took message m off its socket
Handled(s, m) ==
  /\ nmsgs' = nmsgs + 1
  /\ last'.who = "session"
  /\ last'.id = s
  /\ last'.msg = m

\* text messages whose type is none of control, command, ping, and commands
\* whose action is none of the four system commands
UnknownMsgs ==
  {m \in DispatchMsgSet :
     /\ m.kind = "text"
     /\ \/ m.type \notin {Missing, "control", "command", "ping"}
        \/ /\ m.type = "command"
           /\ m.action \notin {"start_auto_click", "stop_auto_click",
                                "set_quality", "set_fps"}}

\* C12 (unknown types are ignored): handling a text message of an unknown
\* type, or a command with an unknown action, reaches no actuator, sends
\* nothing, starts and stops nothing, raises nothing, and leaves the session
\* registered, open and receiving.
C12_UnknownIgnored ==
  [][ \A s \in Sessions : \A m \in UnknownMsgs :
        (~monolith /\ Handled(s, m)) =>
          /\ last'.calls = <<>>
          /\ lastErr' = "none"
          /\ UNCHANGED <<out, auto_click_active, acPc, last_move_time,
                         max_fps, jpeg_quality, clients, conn, hPc>> ]_vars

\* a status message carrying a click was taken and nothing was done
C12_Witness ==
  /\ ~monolith
  /\ last.who = "session"
  /\ last.msg = Msg("text", "status", "click", Missing)
  /\ last.calls = <<>>
  /\ conn[last.id] = "open"
  /\ hPc[last.id] = "recv"
  /\ out[last.id] = <<ScreenSizeMsg>>

\* C11 (per-message error isolation): a message whose handling raises
\* (undecodable text, JSON that is no object, an actuator call that fails, a
\* reply that cannot be written) leaves the session registered and its
\* handler in the receive loop, and while the transport stays open the
\* handler can take a further message.
C11_ErrorIsolation ==
  /\ [][ \A s \in Sessions : \A m \in DispatchMsgSet :
          (Handled(s, m) /\ lastErr' # "none") =>
             /\ hPc'[s] = "recv"
             /\ UNCHANGED <<clients, conn, hPc, out>> ]_vars
  /\ [](\A s \in Sessions :
          (/\ lastErr # "none"
           /\ last.who = "session" /\ last.id = s
           /\ conn[s] = "open") =>
             /\ s \in clients
             /\ hPc[s] = "recv"
             /\ (nmsgs < msgLimit) => ENABLED ReceiveAny(s))

\* a session whose second message was undecodable is still registered and
\* receiving, and can take a third
C11_Witness ==
  /\ last.who = "session"
  /\ last.msg.kind = "badjson"
  /\ lastErr = "json"
  /\ nmsgs = 2
  /\ conn[last.id] = "open"
  /\ hPc[last.id] = "recv"
  /\ last.id \in clients
  /\ ENABLED ReceiveAny(last.id)

\* C19 (set_quality and set_fps have no effect): handling either command
\* changes no setting, reaches no actuator, sends nothing, and leaves the
\* capture loop, the frame queue, the registry and every session as they were.
C19_SettingsNoEffect ==
  [][ \A s \in Sessions : \A m \in DispatchMsgSet :
        (/\ ~monolith
         /\ m.kind = "text" /\ m.type = "command"
         /\ m.action \in {"set_quality", "set_fps"}
         /\ Handled(s, m)) =>
          /\ last'.calls = <<>>
          /\ UNCHANGED <<cfgVars, max_fps, jpeg_quality, listeners,
                         current_monitor, phase, capVars, frame_queue, bcVars,
                         conn, hPc, regVars, out, auto_click_active, acPc,
                         last_move_time>> ]_vars

\* a set_quality command asking for another value was taken; the quality is
\* the configured one
C19_Witness ==
  /\ ~monolith
  /\ last.who = "session"
  /\ last.msg = Msg("text", "command", "set_quality", "low")
  /\ jpeg_quality = DefaultJpegQuality
  /\ max_fps = DefaultMaxFps
  /\ Requested(last.msg) # jpeg_quality

\* the reply the file-transfer path owes for payload p: success with the
\* size of the decrypted and decompressed payload, or an error
OwedReply(p) ==
  LET d == IF cipher THEN Decrypt(p) ELSE p
      z == IF d = Bad THEN Bad
           ELSE IF compression_level > 0 THEN Inflate(d) ELSE d
  IN IF z = Bad THEN FileErr ELSE FileOk(ByteCount(z))

\* C14 as stated: every binary message on an open session is answered with
\* exactly one file_transfer reply.
C14_FileAckAlways ==
  [][ \A s \in Sessions : \A m \in FileMsgs :
        (Handled(s, m) /\ conn[s] = "open") =>
           out' = [out EXCEPT ![s] = Append(@, OwedReply(m.arg))] ]_vars

\* C14 (file transfer acknowledgement): when file transfer is enabled, a
\* binary message on an open session is answered, on that session only, with
\* exactly one reply: success with the size of the decrypted and decompressed
\* payload, or an error when decryption or decompression fails; when file
\* transfer is disabled nothing is sent. The handler keeps receiving.
C14_FileAck ==
  [][ \A s \in Sessions : \A m \in FileMsgs :
        (Handled(s, m) /\ conn[s] = "open") =>
           /\ out' = IF enable_file_transfer
                       THEN [out EXCEPT ![s] = Append(@, OwedReply(m.arg))]
                       ELSE out
           /\ UNCHANGED <<clients, conn, hPc>> ]_vars

\* an encrypted, compressed payload was acknowledged with the size of its
\* plain content
C14_Witness ==
  /\ enable_file_transfer /\ cipher /\ compression_level > 0
  /\ last.who = "session"
  /\ last.msg = Msg("binary", Missing, Missing, "enc(zip(raw))")
  /\ conn[last.id] = "open"
  /\ out[last.id] = <<ScreenSizeMsg, FileOk(ByteCount("raw"))>>

\* C21 (port exhaustion): a start that finds no HTTP port or no WebSocket
\* port binds neither listener and creates no broadcast task; when only the
\* metrics port is unavailable, construction succeeds, and a start that
\* finds an HTTP and a WebSocket port comes to serve with both listeners
\* bound.
C21_PortExhaustion ==
  [][ /\ (/\ phase = "constructed" /\ phase' # phase
          /\ (portEnv.http = "none" \/ portEnv.ws = "none")) =>
            /\ phase' = "aborted"
            /\ "http" \notin listeners' /\ "ws" \notin listeners'
            /\ bcPc' = "none"
      /\ (/\ phase = "new" /\ phase' # phase
          /\ portEnv.metrics # "free") =>
            phase' = "constructed"
      /\ (/\ phase = "constructed" /\ phase' # phase
          /\ portEnv.http # "none" /\ portEnv.ws # "none") =>
            /\ phase' = "serving"
            /\ {"http", "ws"} \subseteq listeners' ]_vars

\* C22 (bounded buffer): the frame queue never holds more frames than
\* frame_queue_size, whatever capacity the configuration carries.
C22_BoundedBuffer == Len(frame_queue) <= frame_queue_size

\* C23 (latest-frame-wins on delivery): for every capacity of one or more,
\* the frame the broadcast loop takes is the newest frame pending in the
\* queue.
C23_TakesNewest ==
  [][ (frame_queue_size >= 1 /\ taken' # taken) =>
         bcFrame' = frame_queue[Len(frame_queue)] ]_vars

\* C24 (monitor switching): every grab is from the monitor that was the
\* current one when its iteration started, so an iteration that starts after
\* switch_monitor(i) with a valid i grabs from monitor i; and switch_monitor
\* with an index out of range changes nothing.
C24_MonitorSwitch ==
  [][ /\ (capPc = "grab" /\ capPc' = "full") => capMonitor = monAtIter
      /\ (current_monitor' # current_monitor) =>
            (current_monitor' \in 0..(Len(monitors) - 1)) ]_vars

\* C25 (the capture loop is never fatal): the capture thread has ended only
\* if the running flag is cleared.
C25_CaptureNeverFatal == (capPc = "exit") => ~running

\* C26 (capture stop): once stop_capture has cleared the flag the capture
\* thread ends, having inserted at most one more frame; the flag is set only
\* by the start and never set again after it was cleared.
C26_CaptureStop ==
  /\ [](putsAfterStop <= 1)
  /\ [][ (running' # running) => (running' = (phase = "constructed")) ]_vars
  /\ ((phase = "cleanup") ~> (capPc = "exit"))

\* the flag was cleared while the thread held a frame: it inserted that
\* frame and ended
C26_Witness ==
  /\ phase = "cleanup"
  /\ ~running
  /\ capPc = "exit"
  /\ putsAfterStop = 1

\* C27 (an injection error ends the auto-click loop): the iteration of an
\* auto-click loop whose click raises makes no click, ends that loop, and
\* leaves every session, its transport, its handler and the registry as they
\* were; a loop that has ended never takes another step.
C27_AutoClickError ==
  [][ \A i \in Loops :
        /\ (/\ acPc[i] \in {"ready", "sleep"}
            /\ lastErr' = "autoclick"
            /\ last'.who = "loop" /\ last'.id = i) =>
              /\ acPc'[i] = "done"
              /\ last'.calls = <<>>
              /\ UNCHANGED <<clients, conn, hPc, out, auto_click_active>>
        /\ (acPc[i] = "done") =>
              /\ acPc'[i] = "done"
              /\ ~(last'.who = "loop" /\ last'.id = i /\ last' # last) ]_vars

\* loop 1 ended on an error while the session that started it is still
\* open, registered and receiving, and the flag is still set
C27_Witness ==
  /\ lastErr = "autoclick"
  /\ last.who = "loop" /\ last.id = 1
  /\ acPc[1] = "done"
  /\ auto_click_active
  /\ conn[1] = "open" /\ hPc[1] = "recv" /\ 1 \in clients

\* the image the capture thread grabbed last
Grabbed == Dims(monitors[capMonitor + 1])

\* C28 (downscale rule): for every valid jpeg_quality, the image the capture
\* thread encodes has neither side over downscale_threshold, and is the
\* grabbed image itself when that was within the threshold.
C28_Downscale ==
  (capShape # NoShape) =>
     /\ capShape.w <= downscale_threshold
     /\ capShape.h <= downscale_threshold
     /\ (Grabbed.w <= downscale_threshold /\ Grabbed.h <= downscale_threshold)
          => capShape = Grabbed

\* C29 (double click): a double_click makes exactly two left clicks, and the
\* step of the event loop that handles it takes no time: the gap between the
\* clicks is spent suspended, with the event loop free for other tasks.
C29_DoubleClickYields ==
  [][ \A s \in Sessions :
        Handled(s, Msg("text", "control", "double_click", Missing)) =>
          /\ last'.calls = <<Call("click", "left"), Call("click", "left")>>
          /\ now' = now ]_vars

\* C30 (one capture thread): at most one capture thread is alive at any
\* time, whatever the order of the start_capture and stop_capture calls.
C30_OneCaptureThread == ~(Alive(capPc) /\ Alive(cap2Pc))

\* the auto-click loops that are scheduled or sleeping
ActiveLoops == {i \in Loops : acPc[i] \in {"ready", "sleep"}}

\* C31 (one auto-click loop): at most one auto-click loop is active at any
\* time, whatever start_auto_click and stop_auto_click commands were handled.
C31_OneAutoClickLoop == Cardinality(ActiveLoops) <= 1

\* C32 (flag/loop consistency): while auto_click_active is true an
\* auto-click loop is scheduled or running; in particular the flag is false
\* once every loop has ended. (A loop that has not yet seen a cleared flag is
\* allowed.)
C32_FlagLoopConsistency == auto_click_active => (ActiveLoops # {})

\* the frames written to a transport, in the order written
FramesOf(log) == SelectSeq(log, LAMBDA m : m.k = "frame")

\* C33 (per-session frame order): the frames sent to a session are in
\* capture order, each later than the one before, so none is sent twice.
C33_FrameOrder ==
  \A s \in Sessions :
    \A i, j \in 1..Len(FramesOf(out[s])) :
       i < j => FramesOf(out[s])[i].f < FramesOf(out[s])[j].f

\* session 1 was sent frames 1 and 3 after the capture thread evicted frame 2
\* from the one-slot queue, and session 2 dropped out in between
C33_Witness ==
  /\ frame_queue_size = 1
  /\ FramesOf(out[1]) = <<FrameMsg(1), FrameMsg(3)>>
  /\ evicted = {2}
  /\ FramesOf(out[2]) = <<FrameMsg(1)>>
  /\ 2 \notin clients

\* C34 (session lifecycle): a session enters the registry only in the step
\* in which its handler starts, which happens once; it is never added again
\* after a removal; and the registry holds only sessions whose handler is in
\* its receive loop.
C34_SessionLifecycle ==
  /\ [](clients \subseteq {s \in Sessions : hPc[s] = "recv"})
  /\ [][ \A s \in Sessions :
          /\ (s \notin clients /\ s \in clients') =>
                (hPc[s] = "none" /\ hPc'[s] = "recv")
          /\ (hPc[s] # "none") => (hPc'[s] # "none") ]_vars

\* session 1 was removed by a failed send while its handler has not ended
\* yet, and session 2 is still registered
C34_Witness ==
  /\ 1 \in bcFailed
  /\ 1 \notin clients
  /\ hPc[1] = "recv"
  /\ removeCalls[1] = 1
  /\ 2 \in clients

\* C35 (handshake first): whatever has been written to a session, the first
\* message is the screen_size handshake; no frame or pong precedes it, though
\* the session is in the registry before the handshake is sent.
C35_HandshakeFirst ==
  \A s \in Sessions : out[s] # <<>> => out[s][1] = ScreenSizeMsg

\* session 2 connected while frame 1 was being sent to the sessions of the
\* snapshot: it got its handshake and then only the next frame, and session 1
\* got a pong and both frames after its handshake
C35_Witness ==
  /\ out[1] = <<ScreenSizeMsg, FrameMsg(1), PongMsg, FrameMsg(2)>>
  /\ out[2] = <<ScreenSizeMsg, FrameMsg(2)>>

\* C36 (eviction only on overflow): a step of the capture loop that discards
\* a pending frame happens only while the queue holds frame_queue_size frames.
C36_EvictOnlyOnOverflow ==
  [][ (capPc = "evict" /\ Len(frame_queue') < Len(frame_queue)) =>
        Len(frame_queue) = frame_queue_size ]_vars

\* C37 (no capture without a server): once start() has returned because no
\* HTTP or WebSocket port was found, the capture engine is stopped.
C37_NoCaptureWithoutServer == (phase = "aborted") => ~running

\* C39 (the server never kills itself at startup): the port search of
\* start() never hands to kill_process_on_port a port held by the server's
\* own process, so no start ends with the server's process killed.
C39_NoSelfKill == phase # "killed"

\* C38 (only explicitly typed messages reach the actuator): handling a text
\* message whose type is absent, or is neither control nor command, makes no
\* actuator call and neither starts nor stops auto-click.
C38_TypedOnly ==
  [][ \A s \in Sessions : \A m \in DispatchMsgSet :
        (/\ ~monolith
         /\ Handled(s, m)
         /\ m.kind = "text"
         /\ m.type \notin {"control", "command"}) =>
          /\ last'.calls = <<>>
          /\ UNCHANGED <<auto_click_active, acPc>> ]_vars

====
